---- MODULE Spec2Model ----
(***************************************************************************)
(* Model of the probot event pipeline: the JSON file backend with its      *)
(* advisory lock (pr_agent/utils/file_lock.py), the webhook signature      *)
(* verifier (pr_agent/webhook/security.py), the webhook ingress            *)
(* (pr_agent/webhook/server.py), the relational store operations           *)
(* (pr_agent/db) and the query tools (pr_agent/tools/github_actions.py).   *)
(***************************************************************************)
EXTENDS Integers, Sequences, FiniteSets, TLC

(***************************************************************************)
(* Bounds of the model.                                                    *)
(***************************************************************************)
NumProcs == 2
MaxOps == 2
TimeoutTicks == 1
MaxItemsBound == 2
MaxPayloadLen == 3
MaxSecretLen == 1
NumReqs == 2

Procs == 1..NumProcs

VARIABLES
    file,        \* the event file: [exists, bytes]
    lockHolder,  \* process holding the flock on the file, 0 when free
    pc,          \* position of each process inside its current call
    call,        \* per process: [op, item, data] of the call in progress
    tries,       \* per process: 100 ms sleeps made in the current file_lock
    res,         \* per process: outcome of its last finished call
    max_items,   \* the max_items argument used by every write of the run
    nextId,      \* next fresh item (each appended item is distinct)
    opsStarted,  \* number of calls started so far
    okItems,     \* items whose safe_append_json returned True
    evicted,     \* items dropped by the max_items truncation of a successful write
    plainWrites, \* number of direct safe_write_json calls started
    sigIn,       \* arguments of a verify_github_signature call
    sigOut,      \* its outcome
    webSecret,   \* GITHUB_WEBHOOK_SECRET, <<>> when not configured
    database_url,\* settings.database_url as get_pool finds it: "set" or "unset"
    req,         \* per webhook request: its position in handle_webhook and its locals
    loop,        \* the request whose handler is running between two awaits, 0 if none
    pool,        \* the module global _pool: 0 for None, else the pool's number
    poolsCreated,\* number of asyncpg.create_pool calls that returned
    table,       \* rows of github_events, in insertion order
    clock,       \* datetime.utcnow()
    lastQuery,   \* what the last query-tool call read, and the requests stored before it
    lk,          \* one file_lock attempt on a file another process may hold locked
    tools,       \* a query-tool call on the event file, run alone
    cleanup,     \* a cleanup_old_events call: its argument and its return value
    cleaners,    \* concurrent cleanup_old_events calls: position, keep_count, cutoff
    serial,      \* next value of the SERIAL column id of github_events
    both,        \* the last query made on both backends: limit and the two answers
    mig          \* one run of migrate_json_to_db

fileVars == <<file, lockHolder, pc, call, tries, res, max_items, nextId,
              opsStarted, okItems, evicted, plainWrites>>

sigVars == <<sigIn, sigOut>>

webVars == <<webSecret, database_url, req, loop, pool, poolsCreated, table, clock, lastQuery>>

lockVars == <<lk>>

toolVars == <<tools>>

dbVars == <<cleanup, cleaners, serial, both>>

migVars == <<mig>>

vars == <<fileVars, sigVars, webVars, lockVars, toolVars, dbVars, migVars>>

\* the values of lk, tools, cleanup and mig when no such call is modelled
NoAttempt ==
    [pc |-> "idle", timeout |-> 0, start_time |-> 0, now |-> 0, held |-> FALSE,
     heldThroughout |-> FALSE, log |-> <<>>]

NoToolCall ==
    [pc |-> "idle", file |-> [exists |-> FALSE, kind |-> "absent", list |-> <<>>],
     op |-> "none", limit |-> 0, name |-> "", out |-> [kind |-> "none"]]

NoCleanup ==
    [pc |-> "idle", keep_count |-> 0, returned |-> 0, before |-> <<>>, failed |-> FALSE]

\* the tasks that may run cleanup_old_events at the same time
NumCleaners == 2
Cleaners == 1..NumCleaners

NoCleaners ==
    [c \in Cleaners |-> [pc |-> "idle", keep_count |-> 0, result |-> 0]]

NoQuery == [pc |-> "idle", limit |-> 0, failed |-> FALSE, rows |-> <<>>, events |-> <<>>]

NoMigration ==
    [pc |-> "idle", file |-> [exists |-> FALSE, kind |-> "absent", list |-> <<>>],
     dry_run |-> FALSE, events_data |-> <<>>, next |-> 1, migrated_count |-> 0,
     failed_count |-> 0, destOps |-> 0,
     out |-> [kind |-> "none", value |-> 0, exc |-> "none", msg |-> "none"]]

InitLockIdle == lk = NoAttempt

InitToolsIdle == tools = NoToolCall

InitDbIdle ==
    /\ cleanup = NoCleanup
    /\ cleaners = NoCleaners
    /\ serial = 1
    /\ both = NoQuery

InitMigIdle == mig = NoMigration

(***************************************************************************)
(* JSON documents on disk.  A document is a sequence of tokens; separators *)
(* and indentation are elided.                                             *)
(***************************************************************************)
LBRACK == [k |-> "[", id |-> 0]
RBRACK == [k |-> "]", id |-> 0]
LBRACE == [k |-> "{", id |-> 0]
RBRACE == [k |-> "}", id |-> 0]
ItemTok(i) == [k |-> "item", id |-> i]

None == [kind |-> "none", list |-> <<>>]
ListVal(s) == [kind |-> "list", list |-> s]
ObjectVal == [kind |-> "object", list |-> <<>>]
JSONDecodeError == [kind |-> "JSONDecodeError", list |-> <<>>]

\* json.dump(data, f): the text of a document
json_dump(v) ==
    IF v.kind = "list"
    THEN <<LBRACK>> \o [n \in 1..Len(v.list) |-> ItemTok(v.list[n])] \o <<RBRACK>>
    ELSE <<LBRACE, RBRACE>>

\* json.load(f): the value of a text, or JSONDecodeError
json_load(b) ==
    IF Len(b) >= 2 /\ b[1] = LBRACK /\ b[Len(b)] = RBRACK
       /\ \A n \in 2..(Len(b) - 1) : b[n].k = "item"
    THEN ListVal([n \in 1..(Len(b) - 2) |-> b[n + 1].id])
    ELSE IF b = <<LBRACE, RBRACE>> THEN ObjectVal
    ELSE JSONDecodeError

\* f.write at offset 0 of a descriptor opened earlier: bytes beyond the new
\* text that are in the file at that moment stay in place
WriteAtStart(old, new) ==
    IF Len(old) > Len(new)
    THEN new \o SubSeq(old, Len(new) + 1, Len(old))
    ELSE new

\* the slice taken from the front of the list: data[:max_items]
FirstItems(s, m) ==
    IF m = 0 THEN s ELSE SubSeq(s, 1, m)

\* data[-max_items:]
LastItems(s, m) ==
    IF m = 0 THEN s ELSE SubSeq(s, Len(s) - m + 1, Len(s))

\* safe_write_json lines 149-151
Truncate(v, m) ==
    IF v.kind = "list" /\ Len(v.list) > m
    THEN ListVal(LastItems(v.list, m))
    ELSE v

Range(s) == {s[n] : n \in 1..Len(s)}

NoCall == [op |-> "none", item |-> 0, data |-> None, dropped |-> {}]
NoRes == [op |-> "none", ok |-> FALSE, data |-> None, fallback |-> "none"]

\* the value safe_read_json hands back: default if default is not None else []
DefaultValue == ListVal(<<>>)

InitFile ==
    /\ file \in {[exists |-> FALSE, bytes |-> <<>>],
                 [exists |-> TRUE, bytes |-> json_dump(ListVal(<<>>))]}
    /\ lockHolder = 0
    /\ pc = [p \in Procs |-> "idle"]
    /\ call = [p \in Procs |-> NoCall]
    /\ tries = [p \in Procs |-> 0]
    /\ res = [p \in Procs |-> NoRes]
    /\ max_items \in 0..MaxItemsBound
    /\ nextId = 1
    /\ opsStarted = 0
    /\ okItems = {}
    /\ evicted = {}
    /\ plainWrites = 0

histVars == <<okItems, evicted>>

(***************************************************************************)
(* Calls of the file backend.                                              *)
(***************************************************************************)
\* a caller enters safe_read_json(file_path, default=[])
StartRead(p) ==
    /\ pc[p] = "idle" /\ opsStarted < MaxOps
    /\ call' = [call EXCEPT ![p] = [op |-> "read", item |-> 0, data |-> None, dropped |-> {}]]
    /\ pc' = [pc EXCEPT ![p] = "rd_exists"]
    /\ opsStarted' = opsStarted + 1
    /\ res' = [res EXCEPT ![p] = NoRes]
    /\ UNCHANGED <<file, lockHolder, tries, max_items, nextId, histVars, plainWrites>>

\* a caller enters safe_append_json(file_path, new_item, max_items)
StartAppend(p) ==
    /\ pc[p] = "idle" /\ opsStarted < MaxOps
    /\ call' = [call EXCEPT ![p] = [op |-> "append", item |-> nextId, data |-> None, dropped |-> {}]]
    /\ nextId' = nextId + 1
    /\ pc' = [pc EXCEPT ![p] = "rd_exists"]
    /\ opsStarted' = opsStarted + 1
    /\ res' = [res EXCEPT ![p] = NoRes]
    /\ UNCHANGED <<file, lockHolder, tries, max_items, histVars, plainWrites>>

\* a caller enters safe_write_json(file_path, data, max_items) directly
StartWrite(p, d) ==
    /\ pc[p] = "idle" /\ opsStarted < MaxOps
    /\ call' = [call EXCEPT ![p] = [op |-> "write", item |-> 0, data |-> d, dropped |-> {}]]
    /\ pc' = [pc EXCEPT ![p] = "wr_open"]
    /\ opsStarted' = opsStarted + 1
    /\ plainWrites' = plainWrites + 1
    /\ res' = [res EXCEPT ![p] = NoRes]
    /\ UNCHANGED <<file, lockHolder, tries, max_items, nextId, histVars>>

\* what follows safe_read_json's return: the plain read is over, the append
\* goes on with lines 199-210 (non-list replaced by [], new item appended)
AfterRead(p, v, fb) ==
    IF call[p].op = "read"
    THEN /\ res' = [res EXCEPT ![p] = [op |-> "read", ok |-> TRUE, data |-> v, fallback |-> fb]]
         /\ pc' = [pc EXCEPT ![p] = "idle"]
         /\ call' = [call EXCEPT ![p] = NoCall]
    ELSE /\ res' = [res EXCEPT ![p] = [op |-> "append", ok |-> FALSE, data |-> v, fallback |-> fb]]
         /\ pc' = [pc EXCEPT ![p] = "wr_open"]
         /\ call' = [call EXCEPT ![p].data =
                ListVal(Append(IF v.kind = "list" THEN v.list ELSE <<>>, call[p].item))]

\* safe_read_json line 104: the existence test
RdExists(p) ==
    /\ pc[p] = "rd_exists"
    /\ IF ~file.exists
       THEN AfterRead(p, DefaultValue, "missing")
       ELSE /\ pc' = [pc EXCEPT ![p] = "rd_open"]
            /\ UNCHANGED <<call, res>>
    /\ UNCHANGED <<file, lockHolder, tries, max_items, nextId, opsStarted, histVars, plainWrites>>

\* file_lock(mode='r') lines 39-51: create "[]" if missing, open, start the clock
RdOpen(p) ==
    /\ pc[p] = "rd_open"
    /\ file' = IF file.exists THEN file
               ELSE [exists |-> TRUE, bytes |-> json_dump(ListVal(<<>>))]
    /\ tries' = [tries EXCEPT ![p] = 0]
    /\ pc' = [pc EXCEPT ![p] = "rd_lock"]
    /\ UNCHANGED <<lockHolder, call, res, max_items, nextId, opsStarted, histVars, plainWrites>>

\* file_lock lines 54-73 for the reader: one flock(LOCK_EX | LOCK_NB) attempt
RdTryLock(p) ==
    /\ pc[p] = "rd_lock"
    /\ IF lockHolder = 0
       THEN /\ lockHolder' = p
            /\ pc' = [pc EXCEPT ![p] = "rd_load"]
            /\ UNCHANGED <<tries, call, res>>
       ELSE IF tries[p] >= TimeoutTicks
       THEN \* TimeoutError, caught at line 121
            /\ AfterRead(p, DefaultValue, "timeout")
            /\ UNCHANGED <<lockHolder, tries>>
       ELSE \* time.sleep(0.1)
            /\ tries' = [tries EXCEPT ![p] = tries[p] + 1]
            /\ UNCHANGED <<lockHolder, pc, call, res>>
    /\ UNCHANGED <<file, max_items, nextId, opsStarted, histVars, plainWrites>>

\* safe_read_json lines 110-120 and file_lock lines 77-91: json.load under
\* the lock, then unlock and close
RdLoad(p) ==
    /\ pc[p] = "rd_load" /\ lockHolder = p
    /\ lockHolder' = 0
    /\ LET v == json_load(file.bytes) IN
       IF v = JSONDecodeError
       THEN AfterRead(p, DefaultValue, "invalid")
       ELSE AfterRead(p, v, "none")
    /\ UNCHANGED <<file, tries, max_items, nextId, opsStarted, histVars, plainWrites>>

\* safe_write_json lines 149-151 and file_lock(mode='w') lines 35-51: the list
\* is cut to its last max_items entries, then open(file_path, 'w') creates the
\* file or truncates it to zero length, and the clock starts
WrOpen(p) ==
    /\ pc[p] = "wr_open"
    /\ LET d == Truncate(call[p].data, max_items) IN
       call' = [call EXCEPT ![p].data = d,
                            ![p].dropped = Range(call[p].data.list) \ Range(d.list)]
    /\ file' = [exists |-> TRUE, bytes |-> <<>>]
    /\ tries' = [tries EXCEPT ![p] = 0]
    /\ pc' = [pc EXCEPT ![p] = "wr_lock"]
    /\ UNCHANGED <<lockHolder, res, max_items, nextId, opsStarted, histVars, plainWrites>>

\* file_lock lines 54-73 for the writer: one flock(LOCK_EX | LOCK_NB) attempt;
\* on timeout safe_write_json returns False (lines 167-173)
WrTryLock(p) ==
    /\ pc[p] = "wr_lock"
    /\ IF lockHolder = 0
       THEN /\ lockHolder' = p
            /\ pc' = [pc EXCEPT ![p] = "wr_dump"]
            /\ UNCHANGED <<tries, call, res>>
       ELSE IF tries[p] >= TimeoutTicks
       THEN /\ res' = [res EXCEPT ![p] = [op |-> call[p].op, ok |-> FALSE,
                                          data |-> call[p].data, fallback |-> "timeout"]]
            /\ pc' = [pc EXCEPT ![p] = "idle"]
            /\ call' = [call EXCEPT ![p] = NoCall]
            /\ UNCHANGED <<lockHolder, tries>>
       ELSE /\ tries' = [tries EXCEPT ![p] = tries[p] + 1]
            /\ UNCHANGED <<lockHolder, pc, call, res>>
    /\ UNCHANGED <<file, max_items, nextId, opsStarted, histVars, plainWrites>>

\* safe_write_json lines 161-166 and file_lock lines 77-91: json.dump, flush
\* and fsync through the descriptor opened in WrOpen (offset 0), unlock, close,
\* return True
WrDump(p) ==
    /\ pc[p] = "wr_dump" /\ lockHolder = p
    /\ file' = [exists |-> TRUE, bytes |-> WriteAtStart(file.bytes, json_dump(call[p].data))]
    /\ lockHolder' = 0
    /\ res' = [res EXCEPT ![p] = [op |-> call[p].op, ok |-> TRUE,
                                  data |-> call[p].data, fallback |-> "none"]]
    /\ okItems' = IF call[p].op = "append" THEN okItems \cup {call[p].item} ELSE okItems
    /\ evicted' = evicted \cup call[p].dropped
    /\ pc' = [pc EXCEPT ![p] = "idle"]
    /\ call' = [call EXCEPT ![p] = NoCall]
    /\ UNCHANGED <<tries, max_items, nextId, opsStarted, plainWrites>>

\* the data a direct safe_write_json call passes: a list of items or an object
WriteData == {ListVal(<<>>), ObjectVal}

NextFile ==
    \/ \E p \in Procs : StartRead(p) /\ UNCHANGED <<sigVars, webVars, lockVars, toolVars, dbVars, migVars>>
    \/ \E p \in Procs : StartAppend(p) /\ UNCHANGED <<sigVars, webVars, lockVars, toolVars, dbVars, migVars>>
    \/ \E p \in Procs : \E d \in WriteData : StartWrite(p, d) /\ UNCHANGED <<sigVars, webVars, lockVars, toolVars, dbVars, migVars>>
    \/ \E p \in Procs : RdExists(p) /\ UNCHANGED <<sigVars, webVars, lockVars, toolVars, dbVars, migVars>>
    \/ \E p \in Procs : RdOpen(p) /\ UNCHANGED <<sigVars, webVars, lockVars, toolVars, dbVars, migVars>>
    \/ \E p \in Procs : RdTryLock(p) /\ UNCHANGED <<sigVars, webVars, lockVars, toolVars, dbVars, migVars>>
    \/ \E p \in Procs : RdLoad(p) /\ UNCHANGED <<sigVars, webVars, lockVars, toolVars, dbVars, migVars>>
    \/ \E p \in Procs : WrOpen(p) /\ UNCHANGED <<sigVars, webVars, lockVars, toolVars, dbVars, migVars>>
    \/ \E p \in Procs : WrTryLock(p) /\ UNCHANGED <<sigVars, webVars, lockVars, toolVars, dbVars, migVars>>
    \/ \E p \in Procs : WrDump(p) /\ UNCHANGED <<sigVars, webVars, lockVars, toolVars, dbVars, migVars>>

Quiet == \A p \in Procs : pc[p] = "idle"

\* no element occurs twice in s
NoDuplicates(s) == \A m, n \in 1..Len(s) : m # n => s[m] # s[n]

Min(a, b) == IF a < b THEN a ELSE b

(***************************************************************************)
(* C1: after N >= 2 safe_append_json calls on the same file, all of which  *)
(* returned True, in any interleaving, the file is a valid JSON list that  *)
(* holds exactly the appended items, each once, cut to the last max_items  *)
(* entries when there are more (stated for max_items >= 1).               *)
(***************************************************************************)
C1_AppendsAllKept ==
    (/\ Quiet /\ plainWrites = 0 /\ max_items >= 1
     /\ nextId - 1 >= 2 /\ Cardinality(okItems) = nextId - 1)
    => LET v == json_load(file.bytes) IN
       /\ v.kind = "list"
       /\ NoDuplicates(v.list)
       /\ Range(v.list) \subseteq okItems
       /\ Len(v.list) = Min(Cardinality(okItems), max_items)

(***************************************************************************)
(* C2: a safe_read_json that overlaps a write on the same file returns the *)
(* complete document of before or after that write; it never finds an      *)
(* empty or partial document and so never falls back to the default        *)
(* because the text did not parse.                                         *)
(***************************************************************************)
C2_ReadNeverSeesPartial ==
    \A p \in Procs : res[p].op = "read" => res[p].fallback # "invalid"

(***************************************************************************)
(* C3: an item whose append succeeded is still in the file after any later *)
(* reads and appends, unless the max_items truncation evicted it.          *)
(***************************************************************************)
C3_NoSilentDrop ==
    (Quiet /\ plainWrites = 0)
    => LET v == json_load(file.bytes) IN
       \A i \in okItems \ evicted : v.kind = "list" /\ i \in Range(v.list)
(***************************************************************************)
(* Webhook signature verification (pr_agent/webhook/security.py).          *)
(* A str or bytes value is a sequence of one-symbol strings.               *)
(***************************************************************************)
\* every byte that occurs in a secret or in a request body
ByteAlphabet == <<"{", "}", "[", "]", "n", "w", "W", "c", "C", "x", "FF", "k", "j">>

ByteCode(c) == CHOOSE n \in 1..Len(ByteAlphabet) : ByteAlphabet[n] = c

HexChars == <<"0", "1", "2", "3", "4", "5", "6", "7", "8", "9",
              "a", "b", "c", "d", "e", "f">>

\* a header character outside ASCII
NonAscii == {"e-acute"}

SigPrefix == <<"s", "h", "a", "2", "5", "6", "=">>

\* length of a hex digest in the model (64 for SHA-256): wide enough to tell
\* apart every (key, message) pair within the bounds
DigestLen == MaxSecretLen + MaxPayloadLen + 1

RECURSIVE PolyValue(_, _)
PolyValue(digits, base) ==
    IF digits = <<>> THEN 0
    ELSE PolyValue(SubSeq(digits, 1, Len(digits) - 1), base) * base + digits[Len(digits)]

\* hmac.new(key, msg, sha256): a keyed digest, modelled as a function that is
\* collision-free on the keys and messages within the bounds
Hmac(key, msg) ==
    PolyValue([n \in 1..Len(key) |-> ByteCode(key[n])] \o <<0>>
              \o [n \in 1..Len(msg) |-> ByteCode(msg[n])],
              Len(ByteAlphabet) + 1)

RECURSIVE Pow(_, _)
Pow(b, e) == IF e = 0 THEN 1 ELSE b * Pow(b, e - 1)

\* .hexdigest(): DigestLen lower-case hex digits, most significant first
HexDigest(v) ==
    [n \in 1..DigestLen |-> HexChars[((v \div Pow(16, DigestLen - n)) % 16) + 1]]

Return(b) == [kind |-> "return", value |-> b, exc |-> "none", msg |-> "none"]
Raise(e, m) == [kind |-> "raise", value |-> FALSE, exc |-> e, msg |-> m]

NoHeader == [present |-> FALSE, text |-> <<>>]
Header(t) == [present |-> TRUE, text |-> t]

\* str.startswith
StartsWith(t, pre) == Len(t) >= Len(pre) /\ SubSeq(t, 1, Len(pre)) = pre

\* hmac.compare_digest on two str: TypeError unless both are ASCII-only
compare_digest(a, b) ==
    IF \E n \in 1..Len(a) : a[n] \in NonAscii THEN Raise("TypeError", "non-ASCII")
    ELSE IF \E n \in 1..Len(b) : b[n] \in NonAscii THEN Raise("TypeError", "non-ASCII")
    ELSE Return(a = b)

\* the verifier with the digest computed without the secret
verify_unkeyed(payload_body, signature_header, secret) ==
    IF secret = <<>>
    THEN Raise("ValueError", "GitHub webhook secret is not configured")
    ELSE IF ~signature_header.present \/ signature_header.text = <<>>
    THEN Raise("ValueError", "Missing X-Hub-Signature-256 header")
    ELSE IF ~StartsWith(signature_header.text, SigPrefix)
    THEN Raise("ValueError", "Invalid signature format")
    ELSE compare_digest(HexDigest(Hmac(<<>>, payload_body)),
                        SubSeq(signature_header.text, Len(SigPrefix) + 1,
                               Len(signature_header.text)))

\* the verifier with the header looked at before the secret
verify_header_first(payload_body, signature_header, secret) ==
    IF ~signature_header.present \/ signature_header.text = <<>>
    THEN Raise("ValueError", "Missing X-Hub-Signature-256 header")
    ELSE IF ~StartsWith(signature_header.text, SigPrefix)
    THEN Raise("ValueError", "Invalid signature format")
    ELSE IF secret = <<>>
    THEN Raise("ValueError", "GitHub webhook secret is not configured")
    ELSE compare_digest(HexDigest(Hmac(secret, payload_body)),
                        SubSeq(signature_header.text, Len(SigPrefix) + 1,
                               Len(signature_header.text)))

verify_github_signature(payload_body, signature_header, secret) ==
    IF secret = <<>>
    THEN Raise("ValueError", "GitHub webhook secret is not configured")
    ELSE IF ~signature_header.present \/ signature_header.text = <<>>
    THEN Raise("ValueError", "Missing X-Hub-Signature-256 header")
    ELSE IF ~StartsWith(signature_header.text, SigPrefix)
    THEN Raise("ValueError", "Invalid signature format")
    ELSE LET received_signature ==
                 SubSeq(signature_header.text, Len(SigPrefix) + 1, Len(signature_header.text))
             expected_signature == HexDigest(Hmac(secret, payload_body))
         IN  compare_digest(expected_signature, received_signature)

\* the header GitHub computes for a payload under a secret
SignedHeader(secret, payload) == SigPrefix \o HexDigest(Hmac(secret, payload))

RECURSIVE SeqsUpTo(_, _)
SeqsUpTo(S, n) ==
    IF n = 0 THEN {<<>>}
    ELSE LET shorter == SeqsUpTo(S, n - 1) IN
         shorter \cup {Append(t, c) : t \in shorter, c \in S}

SigSecrets == SeqsUpTo({"k", "j"}, MaxSecretLen)
SigPayloads == SeqsUpTo({"{", "}"}, MaxPayloadLen)

\* characters an altered header may carry in place of the original one
AltChars == {"0", "f", "g", "A", "e-acute"}

\* t with exactly one position replaced by another character
OneCharChanged(t) ==
    {[t EXCEPT ![n] = c] : n \in 1..Len(t), c \in AltChars} \ {t}

\* the header values tried against a payload and a secret
HeadersFor(secret, payload) ==
    {NoHeader, Header(<<>>), Header(<<"x">>), Header(SigPrefix)}
    \cup {Header(SignedHeader(s, q)) : s \in SigSecrets, q \in SigPayloads}
    \cup {Header(t) : t \in OneCharChanged(SignedHeader(secret, payload))}
    \cup {Header(SubSeq(SignedHeader(secret, payload), 1, Len(SigPrefix) + DigestLen - 1)),
          Header(Append(SignedHeader(secret, payload), "0"))}

Pending == [kind |-> "pending", value |-> FALSE, exc |-> "none", msg |-> "none"]

InitSigIdle ==
    /\ sigIn = [payload |-> <<>>, header |-> NoHeader, secret |-> <<>>]
    /\ sigOut = Return(FALSE)

InitSig ==
    /\ \E s \in SigSecrets, q \in SigPayloads :
          \E h \in HeadersFor(s, q) :
             sigIn = [payload |-> q, header |-> h, secret |-> s]
    /\ sigOut = Pending

\* one call of verify_github_signature on the drawn arguments
Verify ==
    /\ sigOut = Pending
    /\ sigOut' = verify_github_signature(sigIn.payload, sigIn.header, sigIn.secret)
    /\ UNCHANGED sigIn

(***************************************************************************)
(* Webhook ingress (pr_agent/webhook/server.py), the relational store      *)
(* (pr_agent/db) and the query tools (pr_agent/tools/github_actions.py).   *)
(* handle_webhook is a coroutine: between two awaits it runs without       *)
(* interleaving, which the variable loop records.                         *)
(***************************************************************************)
Reqs == 1..NumReqs

\* members of a JSON object in a request body, one token each:
\* "w"/"W" a workflow_run that validates / does not, "c"/"C" the same for
\* check_run, "x" an action that is not a string
FieldToks == {"w", "W", "c", "C", "x"}

\* bytes.decode('utf-8'): fails on a byte that no UTF-8 text contains
Utf8Decodes(b) == \A n \in 1..Len(b) : b[n] # "FF"

\* json.loads on the text of a body
json_loads(t) ==
    IF t = <<"n">> THEN [kind |-> "null", fields |-> {}]
    ELSE IF t = <<"[", "]">> THEN [kind |-> "list", fields |-> {}]
    ELSE IF /\ Len(t) >= 2 /\ t[1] = "{" /\ t[Len(t)] = "}"
            /\ \A n \in 2..(Len(t) - 1) : t[n] \in FieldToks
            /\ \A m, n \in 2..(Len(t) - 1) : m # n => t[m] # t[n]
    THEN [kind |-> "object", fields |-> {t[n] : n \in 2..(Len(t) - 1)}]
    ELSE [kind |-> "JSONDecodeError", fields |-> {}]

\* from_json_string(json_str, default=None): None on JSONDecodeError
from_json_string(t) ==
    LET v == json_loads(t) IN
    IF v.kind = "JSONDecodeError" THEN [kind |-> "null", fields |-> {}] ELSE v

\* the request bodies tried
Bodies ==
    {<<"{", "}">>, <<"{", "w", "}">>, <<"{", "W", "}">>, <<"{", "x", "}">>,
     <<"[", "]">>, <<"n">>, <<"{">>, <<"FF">>}

\* the X-Hub-Signature-256 values tried with a body
WebHeaders(body) ==
    {NoHeader, Header(<<"x">>),
     Header(SignedHeader(<<"k">>, body)), Header(SignedHeader(<<"j">>, body)),
     Header(SigPrefix \o <<"e-acute">>)}

Response(st, code) == [status |-> st, code |-> code]
NoResponse == Response(0, "none")
Received == Response(200, "received")

NoData == [kind |-> "none", fields |-> {}]
NoEvent == [timestamp |-> 0, workflow_run |-> "absent", check_run |-> "absent", fallback |-> FALSE]

\* what a body is, whatever the handler makes of it
BodyKind(b) ==
    IF ~Utf8Decodes(b) THEN "not-utf8"
    ELSE IF json_loads(b).kind = "JSONDecodeError" THEN "not-json"
    ELSE IF json_loads(b).kind = "object" THEN "json-object"
    ELSE "json-other"

\* the locals of one run of handle_webhook; badSig and bodyKind record what
\* the request carried, the body is kept only until it is parsed
NewReq ==
    [stage |-> "new", body |-> <<>>, data |-> NoData,
     event |-> NoEvent, resp |-> NoResponse, verified |-> FALSE, inserts |-> 0,
     storeFailed |-> FALSE, stored |-> FALSE, badSig |-> FALSE, bodyKind |-> "none",
     gates |-> <<>>]

InitWebIdle ==
    /\ webSecret = <<>>
    /\ database_url = "unset"
    /\ req = [r \in Reqs |-> NewReq]
    /\ loop = 0
    /\ pool = 0
    /\ poolsCreated = 0
    /\ table = <<>>
    /\ clock = 1
    /\ lastQuery = [events |-> <<>>, after |-> {}]

InitFileIdle ==
    /\ file = [exists |-> FALSE, bytes |-> <<>>]
    /\ lockHolder = 0
    /\ pc = [p \in Procs |-> "idle"]
    /\ call = [p \in Procs |-> NoCall]
    /\ tries = [p \in Procs |-> 0]
    /\ res = [p \in Procs |-> NoRes]
    /\ max_items = 0
    /\ nextId = 1
    /\ opsStarted = 0
    /\ okItems = {}
    /\ evicted = {}
    /\ plainWrites = 0

InitWeb ==
    /\ webSecret \in {<<>>, <<"k">>}
    /\ database_url \in {"unset", "set"}
    /\ req = [r \in Reqs |-> NewReq]
    /\ loop = 0
    /\ pool = 0
    /\ poolsCreated = 0
    /\ table = <<>>
    /\ clock = 1
    /\ lastQuery = [events |-> <<>>, after |-> {}]
    /\ InitFileIdle
    /\ InitSigIdle
    /\ InitLockIdle /\ InitToolsIdle /\ InitDbIdle /\ InitMigIdle

\* the handler returns: the response is final and the event loop is free
Respond(r, rec, response) ==
    /\ req' = [req EXCEPT ![r] = [rec EXCEPT !.stage = "done", !.resp = response,
                                            !.gates = Append(rec.gates, "responded")]]
    /\ loop' = 0

\* handle_webhook lines 35-48: a request arrives, its headers are read and the
\* handler awaits the raw body
Receive(r) ==
    /\ req[r].stage = "new" /\ loop = 0
    /\ req' = [req EXCEPT ![r] = [NewReq EXCEPT !.stage = "reading", !.gates = <<"received">>]]
    /\ UNCHANGED <<webSecret, database_url, loop, pool, poolsCreated, table, clock, lastQuery>>

\* the signature gate without the test of line 51
SignatureGateAlways(secret, header, body) ==
    LET out == verify_github_signature(body, header, secret) IN
    IF out.kind = "return"
    THEN IF out.value
         THEN [pass |-> TRUE, verified |-> TRUE, resp |-> NoResponse]
         ELSE [pass |-> FALSE, verified |-> TRUE, resp |-> Response(401, "INVALID_SIGNATURE")]
    ELSE IF out.exc = "ValueError"
    THEN [pass |-> FALSE, verified |-> TRUE,
          resp |-> Response(401, "SIGNATURE_VERIFICATION_FAILED")]
    ELSE [pass |-> FALSE, verified |-> TRUE, resp |-> Response(500, "INTERNAL_ERROR")]

\* handle_webhook lines 51-78: the signature gate.  pass: the handler goes
\* on; verified: verify_github_signature was called; resp: the early response
SignatureGate(secret, header, body) ==
    IF secret # <<>>
    THEN LET out == verify_github_signature(body, header, secret) IN
         IF out.kind = "return"
         THEN IF out.value
              THEN [pass |-> TRUE, verified |-> TRUE, resp |-> NoResponse]
              ELSE [pass |-> FALSE, verified |-> TRUE,
                    resp |-> Response(401, "INVALID_SIGNATURE")]
         ELSE IF out.exc = "ValueError"
         THEN [pass |-> FALSE, verified |-> TRUE,
               resp |-> Response(401, "SIGNATURE_VERIFICATION_FAILED")]
         ELSE \* any other exception reaches the handler at line 198
              [pass |-> FALSE, verified |-> TRUE, resp |-> Response(500, "INTERNAL_ERROR")]
    ELSE [pass |-> TRUE, verified |-> FALSE, resp |-> NoResponse]

\* the body b has been read: the handler resumes and passes the signature
\* gate with the X-Hub-Signature-256 header h of the request
SigCheck(r, h, b) ==
    /\ req[r].stage = "reading" /\ loop = 0
    /\ LET g == SignatureGate(webSecret, h, b)
           rec == [req[r] EXCEPT !.verified = g.verified,
                                 !.badSig = (h # Header(SignedHeader(webSecret, b))),
                                 !.bodyKind = BodyKind(b),
                                 !.gates = Append(req[r].gates, "signature")]
       IN  IF g.pass
           THEN /\ req' = [req EXCEPT ![r] = [rec EXCEPT !.stage = "sigok", !.body = b]]
                /\ loop' = r
           ELSE Respond(r, rec, g.resp)
    /\ UNCHANGED <<webSecret, database_url, pool, poolsCreated, table, clock, lastQuery>>

\* handle_webhook lines 81-92: decode and parse the body
ParseGate(body) ==
    IF ~Utf8Decodes(body)
    THEN \* UnicodeDecodeError, raised before from_json_string is entered
         [pass |-> FALSE, data |-> NoData, resp |-> Response(500, "INTERNAL_ERROR")]
    ELSE LET data == from_json_string(body) IN
         IF data.kind = "null"
         THEN [pass |-> FALSE, data |-> data, resp |-> Response(400, "INVALID_JSON")]
         ELSE [pass |-> TRUE, data |-> data, resp |-> NoResponse]

ParseBody(r) ==
    /\ req[r].stage = "sigok" /\ loop = r
    /\ LET g == ParseGate(req[r].body)
           rec == [req[r] EXCEPT !.data = g.data, !.body = <<>>,
                                 !.gates = Append(req[r].gates, "parse")]
       IN  IF g.pass
           THEN /\ req' = [req EXCEPT ![r] = [rec EXCEPT !.stage = "parsed"]]
                /\ UNCHANGED loop
           ELSE Respond(r, rec, g.resp)
    /\ UNCHANGED <<webSecret, database_url, pool, poolsCreated, table, clock, lastQuery>>

\* safe_model_validate(WorkflowRun / CheckRun, data[...]): the model, or None
NestedModel(fields, good, bad) ==
    IF good \in fields THEN "valid" ELSE "absent"

\* the raw nested value data.get(...) of the payload
NestedRaw(fields, good, bad) ==
    IF good \in fields THEN "valid" ELSE IF bad \in fields THEN "raw" ELSE "absent"

\* handle_webhook lines 99-144: the event record, through GitHubEvent or, when
\* its construction fails, the fallback dict that carries the raw nested data
BuildEvent(fields, now) ==
    IF "x" \in fields
    THEN [timestamp |-> now, workflow_run |-> NestedRaw(fields, "w", "W"),
          check_run |-> NestedRaw(fields, "c", "C"), fallback |-> TRUE]
    ELSE [timestamp |-> now, workflow_run |-> NestedModel(fields, "w", "W"),
          check_run |-> NestedModel(fields, "c", "C"), fallback |-> FALSE]

\* handle_webhook lines 95-152: field extraction and event validation; data.get
\* on a payload that is not a JSON object raises AttributeError (line 198)
Validate(r) ==
    /\ req[r].stage = "parsed" /\ loop = r
    /\ LET rec == [req[r] EXCEPT !.data = NoData,
                                 !.gates = Append(req[r].gates, "validate")] IN
       IF req[r].data.kind # "object"
       THEN /\ Respond(r, rec, Response(500, "INTERNAL_ERROR"))
            /\ UNCHANGED clock
       ELSE /\ req' = [req EXCEPT ![r] = [rec EXCEPT !.stage = "validated",
                          !.event = BuildEvent(req[r].data.fields, clock)]]
            /\ clock' = clock + 1
            /\ UNCHANGED loop
    /\ UNCHANGED <<webSecret, database_url, pool, poolsCreated, table, lastQuery>>

\* handle_webhook lines 155-164, insert_event lines 72-73, get_pool lines 25-39:
\* insert_event is called and asks for the pool
BeginStore(r) ==
    /\ req[r].stage = "validated" /\ loop = r
    /\ LET rec == [req[r] EXCEPT !.inserts = req[r].inserts + 1,
                                 !.gates = Append(req[r].gates, "store")] IN
       IF pool # 0
       THEN /\ req' = [req EXCEPT ![r] = [rec EXCEPT !.stage = "inserting"]]
            /\ loop' = 0
       ELSE IF database_url = "unset"
       THEN \* get_pool raises; insert_event re-raises as RuntimeError
            /\ req' = [req EXCEPT ![r] = [rec EXCEPT !.stage = "stored", !.storeFailed = TRUE]]
            /\ UNCHANGED loop
       ELSE /\ req' = [req EXCEPT ![r] = [rec EXCEPT !.stage = "creating"]]
            /\ loop' = 0
    /\ UNCHANGED <<webSecret, database_url, pool, poolsCreated, table, clock, lastQuery>>

\* get_pool lines 39-50: asyncpg.create_pool returns a pool, which becomes the
\* global _pool, or raises
CreatePool(r, ok) ==
    /\ req[r].stage = "creating" /\ loop = 0
    /\ IF ok
       THEN /\ poolsCreated' = poolsCreated + 1
            /\ pool' = poolsCreated + 1
            /\ req' = [req EXCEPT ![r].stage = "inserting"]
            /\ UNCHANGED loop
       ELSE /\ req' = [req EXCEPT ![r].stage = "stored", ![r].storeFailed = TRUE]
            /\ loop' = r
            /\ UNCHANGED <<pool, poolsCreated>>
    /\ UNCHANGED <<webSecret, database_url, table, clock, lastQuery>>

Row(r, e) ==
    [id |-> Len(table) + 1, timestamp |-> e.timestamp, workflow_run |-> e.workflow_run,
     check_run |-> e.check_run, req |-> r]

\* insert_event lines 74-95: acquire a connection and run INSERT_EVENT_SQL; any
\* exception is re-raised as RuntimeError
InsertRow(r, ok) ==
    /\ req[r].stage = "inserting" /\ loop = 0
    /\ IF ok
       THEN /\ table' = Append(table, Row(r, req[r].event))
            /\ req' = [req EXCEPT ![r].stage = "stored", ![r].stored = TRUE]
       ELSE /\ req' = [req EXCEPT ![r].stage = "stored", ![r].storeFailed = TRUE]
            /\ UNCHANGED table
    /\ loop' = r
    /\ UNCHANGED <<webSecret, database_url, pool, poolsCreated, clock, lastQuery>>

\* the answer if a failure of the store step were left to the handler at line 198
AfterStoreUncaught(failed) ==
    IF failed THEN Response(500, "INTERNAL_ERROR") ELSE Received

\* handle_webhook lines 181-197: what the handler answers after the store step
AfterStore(failed) == Received

Acknowledge(r) ==
    /\ req[r].stage = "stored" /\ loop = r
    /\ Respond(r, req[r], AfterStore(req[r].storeFailed))
    /\ UNCHANGED <<webSecret, database_url, pool, poolsCreated, table, clock, lastQuery>>

\* safe_read_json when no other call on the file is in progress
ReadAlone(f) ==
    IF ~f.exists THEN DefaultValue
    ELSE LET v == json_load(f.bytes) IN
         IF v = JSONDecodeError THEN DefaultValue ELSE v

\* get_recent_actions_events / get_workflow_status line 31 / 77: the events
\* the query tools read come from EVENTS_FILE
QueryTool ==
    /\ loop = 0
    /\ lastQuery' = [events |-> ReadAlone(file).list,
                     after |-> {r \in Reqs : req[r].stage = "done" /\ req[r].stored}]
    /\ lastQuery' # lastQuery
    /\ UNCHANGED <<webSecret, database_url, req, loop, pool, poolsCreated, table, clock>>

\* the request is aborted while handle_webhook is suspended at an await (the
\* body read of line 48, create_pool, the INSERT): CancelledError is no
\* Exception, no handler of lines 181-209 catches it and no response is made.
\* sent: the INSERT had reached the server when the task was cancelled
Cancel(r, sent) ==
    /\ req[r].stage \in {"reading", "creating", "inserting"} /\ loop = 0
    /\ sent => req[r].stage = "inserting"
    /\ table' = IF sent THEN Append(table, Row(r, req[r].event)) ELSE table
    /\ req' = [req EXCEPT ![r].stage = "cancelled", ![r].stored = sent]
    /\ UNCHANGED <<webSecret, database_url, loop, pool, poolsCreated, clock, lastQuery>>

NextWeb ==
    \/ \E r \in Reqs : \E sent \in BOOLEAN :
          Cancel(r, sent) /\ UNCHANGED <<fileVars, sigVars, lockVars, toolVars, dbVars, migVars>>
    \/ \E r \in Reqs : Receive(r) /\ UNCHANGED <<fileVars, sigVars, lockVars, toolVars, dbVars, migVars>>
    \/ \E r \in Reqs : \E b \in Bodies : \E h \in WebHeaders(b) :
          SigCheck(r, h, b) /\ UNCHANGED <<fileVars, sigVars, lockVars, toolVars, dbVars, migVars>>
    \/ \E r \in Reqs : ParseBody(r) /\ UNCHANGED <<fileVars, sigVars, lockVars, toolVars, dbVars, migVars>>
    \/ \E r \in Reqs : Validate(r) /\ UNCHANGED <<fileVars, sigVars, lockVars, toolVars, dbVars, migVars>>
    \/ \E r \in Reqs : BeginStore(r) /\ UNCHANGED <<fileVars, sigVars, lockVars, toolVars, dbVars, migVars>>
    \/ \E r \in Reqs : \E ok \in BOOLEAN : CreatePool(r, ok) /\ UNCHANGED <<fileVars, sigVars, lockVars, toolVars, dbVars, migVars>>
    \/ \E r \in Reqs : \E ok \in BOOLEAN : InsertRow(r, ok) /\ UNCHANGED <<fileVars, sigVars, lockVars, toolVars, dbVars, migVars>>
    \/ \E r \in Reqs : Acknowledge(r) /\ UNCHANGED <<fileVars, sigVars, lockVars, toolVars, dbVars, migVars>>
    \/ QueryTool /\ UNCHANGED <<fileVars, sigVars, lockVars, toolVars, dbVars, migVars>>

SpecWeb == InitWeb /\ [][NextWeb]_vars

InitFileSpec ==
    /\ InitFile /\ InitSigIdle /\ InitWebIdle
    /\ InitLockIdle /\ InitToolsIdle /\ InitDbIdle /\ InitMigIdle

SpecFile == InitFileSpec /\ [][NextFile]_vars

NextSig == Verify /\ UNCHANGED <<fileVars, webVars, lockVars, toolVars, dbVars, migVars>>

InitSigSpec ==
    /\ InitSig /\ InitFileIdle /\ InitWebIdle
    /\ InitLockIdle /\ InitToolsIdle /\ InitDbIdle /\ InitMigIdle

SpecSig == InitSigSpec /\ [][NextSig]_vars

Done(r) == req[r].stage = "done"

\* the request went past the signature gate and its body reached the parser
ReachedParse(r) == Len(req[r].gates) >= 3 /\ req[r].gates[3] = "parse"

\* a and b have the same length and differ in exactly one position
DiffersInOne(a, b) ==
    /\ Len(a) = Len(b)
    /\ Cardinality({n \in 1..Len(a) : a[n] # b[n]}) = 1

AsciiOnly(t) == \A n \in 1..Len(t) : t[n] \notin NonAscii

(***************************************************************************)
(* C4: an event that handle_webhook stored without error and answered     *)
(* with 200 is among the events a later query-tool call reads.             *)
(***************************************************************************)
C4_StoredVisible ==
    \A r \in lastQuery.after :
        req[r].resp = Received
        => \E n \in 1..Len(lastQuery.events) : lastQuery.events[n] = req[r].event.timestamp

(***************************************************************************)
(* C5: with a secret configured, every request whose signature header is   *)
(* missing, lacks the prefix or carries a digest that does not match is    *)
(* answered 401 (INVALID_SIGNATURE or SIGNATURE_VERIFICATION_FAILED) and   *)
(* insert_event is not called for it.                                      *)
(***************************************************************************)
C5_BadSignature401 ==
    webSecret # <<>>
    => \A r \in Reqs :
          (Done(r) /\ req[r].badSig)
          => /\ req[r].resp.status = 401
             /\ req[r].resp.code \in {"INVALID_SIGNATURE", "SIGNATURE_VERIFICATION_FAILED"}
             /\ req[r].inserts = 0

C7_ErrorOrder ==
    sigOut # Pending
    => LET h == sigIn.header IN
       /\ sigIn.secret = <<>>
          => sigOut = Raise("ValueError", "GitHub webhook secret is not configured")
       /\ (sigIn.secret # <<>> /\ (~h.present \/ h.text = <<>>))
          => sigOut = Raise("ValueError", "Missing X-Hub-Signature-256 header")
       /\ (sigIn.secret # <<>> /\ h.present /\ h.text # <<>> /\ ~StartsWith(h.text, SigPrefix))
          => sigOut = Raise("ValueError", "Invalid signature format")

C7_Witness ==
    /\ sigIn.secret = <<>>
    /\ sigIn.header = Header(<<"x">>)
    /\ sigOut = Raise("ValueError", "GitHub webhook secret is not configured")

(***************************************************************************)
(* C8: with no secret configured the handler never calls the verifier and  *)
(* never answers 401; a request whose body is a JSON object is answered    *)
(* 200 whatever its signature header.                                      *)
(***************************************************************************)
C8_OpenMode ==
    webSecret = <<>>
    => \A r \in Reqs :
          /\ ~req[r].verified
          /\ req[r].resp.status # 401
          /\ (Done(r) /\ req[r].bodyKind = "json-object") => req[r].resp = Received

C8_Witness ==
    /\ webSecret = <<>>
    /\ \E r \in Reqs : /\ Done(r) /\ req[r].badSig /\ req[r].bodyKind = "json-object"
                        /\ req[r].resp = Received

(***************************************************************************)
(* C9: once the signature gate is passed and the body parsed, a failure of *)
(* the store step still gives the response 200 "received".                 *)
(***************************************************************************)
C9_StoreFailure200 ==
    \A r \in Reqs : (Done(r) /\ req[r].storeFailed) => req[r].resp = Received

C9_Witness ==
    \E r \in Reqs : Done(r) /\ req[r].storeFailed /\ req[r].inserts = 1
                     /\ req[r].resp = Received

(***************************************************************************)
(* C10: a request past the signature gate whose body is not parseable as   *)
(* JSON (bodies that are not UTF-8 included) is answered 400 INVALID_JSON  *)
(* and nothing is stored; a body that is valid JSON is never answered      *)
(* INVALID_JSON.                                                           *)
(***************************************************************************)
C10_InvalidJson400 ==
    \A r \in Reqs :
        (Done(r) /\ ReachedParse(r))
        => /\ req[r].bodyKind \in {"not-utf8", "not-json"}
              => req[r].resp = Response(400, "INVALID_JSON") /\ req[r].inserts = 0
           /\ req[r].bodyKind \in {"json-object", "json-other"}
              => req[r].resp.code # "INVALID_JSON"

(***************************************************************************)
(* One file_lock(file_path, timeout) attempt with time made explicit       *)
(* (pr_agent/utils/file_lock.py lines 49-91).  Time is counted in ticks;   *)
(* time.sleep(0.1) lasts SleepTicks ticks, and up to MaxDelay further      *)
(* ticks pass while the process runs its own statements or waits to be     *)
(* scheduled.  Another process holds the flock and may release it.         *)
(***************************************************************************)
SleepTicks == 2
MaxTimeout == 3
MaxDelay == 1

Delays == 0..MaxDelay

\* the test of line 62 made strict
TimedOutLate(elapsed, timeout) == elapsed > timeout

\* line 62: time.time() - start_time >= timeout
TimedOut(elapsed, timeout) == elapsed >= timeout

InitLock ==
    \E t \in 0..MaxTimeout : \E h \in BOOLEAN :
        lk = [NoAttempt EXCEPT !.timeout = t, !.held = h, !.heldThroughout = h]

\* lines 50-51: open the file and read the clock
LkOpen ==
    /\ lk.pc = "idle"
    /\ lk' = [lk EXCEPT !.pc = "try", !.start_time = lk.now]

\* lines 55-73: one flock(LOCK_EX | LOCK_NB) attempt, d ticks after the
\* previous statement; log keeps the elapsed time read at each failed attempt
LkTry(d) ==
    /\ lk.pc = "try"
    /\ LET elapsed == lk.now + d - lk.start_time IN
       IF ~lk.held
       THEN lk' = [lk EXCEPT !.pc = "body", !.now = lk.now + d]
       ELSE IF TimedOut(elapsed, lk.timeout)
       THEN \* f.close() and raise TimeoutError
            lk' = [lk EXCEPT !.pc = "raised", !.now = lk.now + d,
                             !.log = Append(lk.log, elapsed)]
       ELSE lk' = [lk EXCEPT !.pc = "sleep", !.now = lk.now + d,
                             !.log = Append(lk.log, elapsed)]

\* line 73: time.sleep(0.1), which lasts at least 100 ms
LkSleep(d) ==
    /\ lk.pc = "sleep"
    /\ lk' = [lk EXCEPT !.pc = "try", !.now = lk.now + SleepTicks + d]

\* lines 75-91: the body has run; unlock and close
LkExit ==
    /\ lk.pc = "body"
    /\ lk' = [lk EXCEPT !.pc = "done"]

\* the other process releases its lock while the attempt is under way
OtherRelease ==
    /\ lk.held /\ lk.pc \in {"try", "sleep"}
    /\ lk' = [lk EXCEPT !.held = FALSE, !.heldThroughout = FALSE]

NextLock ==
    \/ LkOpen /\ UNCHANGED <<fileVars, sigVars, webVars, toolVars, dbVars, migVars>>
    \/ \E d \in Delays : LkTry(d) /\ UNCHANGED <<fileVars, sigVars, webVars, toolVars, dbVars, migVars>>
    \/ \E d \in Delays : LkSleep(d) /\ UNCHANGED <<fileVars, sigVars, webVars, toolVars, dbVars, migVars>>
    \/ LkExit /\ UNCHANGED <<fileVars, sigVars, webVars, toolVars, dbVars, migVars>>
    \/ OtherRelease /\ UNCHANGED <<fileVars, sigVars, webVars, toolVars, dbVars, migVars>>

InitLockSpec ==
    /\ InitLock /\ InitFileIdle /\ InitSigIdle /\ InitWebIdle
    /\ InitToolsIdle /\ InitDbIdle /\ InitMigIdle

SpecLock == InitLockSpec /\ [][NextLock]_vars

\* the elapsed times logged before the last one
EarlierFails == {n \in 1..Len(lk.log) : n < Len(lk.log)}

(***************************************************************************)
(* C11 as stated: while another process holds the lock throughout an       *)
(* attempt with timeout T > 0, the attempt never enters its body, pauses a *)
(* fixed 100 ms between tries, and raises TimeoutError at the first failed *)
(* try made at or after T, never on the first try, after a bounded number  *)
(* of tries.                                                               *)
(***************************************************************************)
C11_TimeoutNotOnFirstTry ==
    (lk.heldThroughout /\ lk.timeout > 0)
    => /\ lk.pc \notin {"body", "done"}
       /\ Len(lk.log) <= lk.timeout \div SleepTicks + 2
       /\ lk.pc = "raised"
          => /\ Len(lk.log) >= 2
             /\ lk.log[Len(lk.log)] >= lk.timeout
             /\ \A n \in EarlierFails : lk.log[n] < lk.timeout

(***************************************************************************)
(* C11 amended: as above, except that the error is raised on the first try *)
(* exactly when that try itself ends at or after T; otherwise at least two *)
(* tries are made, at least 100 ms apart.                                  *)
(***************************************************************************)
C11_TimeoutBounded ==
    (lk.heldThroughout /\ lk.timeout > 0)
    => /\ lk.pc \notin {"body", "done"}
       /\ Len(lk.log) <= lk.timeout \div SleepTicks + 2
       /\ \A n \in EarlierFails :
             /\ lk.log[n] < lk.timeout
             /\ lk.log[n + 1] - lk.log[n] >= SleepTicks
       /\ lk.pc = "raised"
          => /\ lk.log[Len(lk.log)] >= lk.timeout
             /\ (Len(lk.log) = 1 <=> lk.log[1] >= lk.timeout)
       /\ (lk.pc \in {"try", "sleep"} /\ lk.log # <<>>) => lk.log[Len(lk.log)] < lk.timeout

C11_Witness ==
    /\ lk.heldThroughout /\ lk.timeout = SleepTicks
    /\ lk.pc = "raised" /\ Len(lk.log) = 2
    /\ lk.log[1] = 0

(***************************************************************************)
(* The query tools run alone on the event file                             *)
(* (pr_agent/tools/github_actions.py, pr_agent/utils/json_helpers.py,      *)
(* pr_agent/models/events.py).  A str is a number that stands for its      *)
(* lexical rank, 0 being the empty string; None is NoneStr.                *)
(***************************************************************************)
MaxKey == 2
MaxEvents == 2

Names == {"CI", "Lint"}
Conclusions == {"success", "failure"}

NoneStr == [present |-> FALSE, text |-> 0]
Str(k) == [present |-> TRUE, text |-> k]

\* Python truth value of an Optional[str]
Truthy(x) == x.present /\ x.text # 0

\* the workflow_run member of a raw record: absent, a dict that WorkflowRun
\* rejects (a required field is missing), or a complete run
NoRun == [given |-> "absent", name |-> "", conclusion |-> "", updated_at |-> NoneStr]
BadRun == [given |-> "bad", name |-> "", conclusion |-> "", updated_at |-> NoneStr]
Runs ==
    [given : {"ok"}, name : Names, conclusion : Conclusions,
     updated_at : {NoneStr} \cup {Str(k) : k \in 0..MaxKey}]

\* raw records of the file: a value that is no dict, a dict without
\* event_type, a dict with explicit null members, and event dicts
NotADict ==
    [dict |-> FALSE, timestamp |-> NoneStr, event_type |-> FALSE,
     workflow_run |-> NoRun, nulls |-> FALSE]
NoTypeRecord ==
    [dict |-> TRUE, timestamp |-> Str(1), event_type |-> FALSE,
     workflow_run |-> NoRun, nulls |-> FALSE]
NullsRecord ==
    [dict |-> TRUE, timestamp |-> Str(1), event_type |-> TRUE,
     workflow_run |-> NoRun, nulls |-> TRUE]
EmptyTimeRecord ==
    [dict |-> TRUE, timestamp |-> Str(0), event_type |-> TRUE,
     workflow_run |-> NoRun, nulls |-> FALSE]
RawRecords ==
    {NotADict, NoTypeRecord, NullsRecord, EmptyTimeRecord}
    \cup [dict : {TRUE}, timestamp : {Str(k) : k \in 1..MaxKey}, event_type : {TRUE},
          workflow_run : Runs \cup {NoRun, BadRun}, nulls : {FALSE}]

\* datetime.fromisoformat(v) returns: the strings 1..MaxKey stand for ISO
\* date-times, the empty string is none (ValueError)
IsoParses(v) == v.text # 0

\* v.replace('Z', '+00:00'); no string of the model holds a Z
ReplaceZ(v) == v

\* GitHubEvent.validate_timestamp lines 88-106
validate_timestamp(v) ==
    IF IsoParses(v) THEN Return(v)
    ELSE IF IsoParses(ReplaceZ(v)) THEN Return(v)
    ELSE \* lines 103-105: both failed, the value is accepted all the same
         Return(v)

\* GitHubEvent.model_validate(event_data) succeeds
Validates(r) ==
    /\ r.dict /\ r.timestamp.present /\ r.event_type
    /\ validate_timestamp(r.timestamp).kind = "return"
    /\ r.workflow_run.given # "bad"

\* the model instance: members given as null are None like the missing ones,
\* and model_dump(exclude_none=True) leaves them out
model_validate(r) == [r EXCEPT !.nulls = FALSE]

\* events[-limit:]
TailSlice(s, n) ==
    IF n = 0 \/ n >= Len(s) THEN s ELSE SubSeq(s, Len(s) - n + 1, Len(s))

\* the validation loop stopped at the first record that fails
RECURSIVE validate_until_invalid(_)
validate_until_invalid(data_list) ==
    IF data_list = <<>> \/ ~Validates(Head(data_list)) THEN <<>>
    ELSE <<model_validate(Head(data_list))>> \o validate_until_invalid(Tail(data_list))

\* validate_models_batch lines 104-109, and the loops of lines 38-49 and 84-94
RECURSIVE validate_models_batch(_)
validate_models_batch(data_list) ==
    IF data_list = <<>> THEN <<>>
    ELSE IF Validates(Head(data_list))
    THEN <<model_validate(Head(data_list))>> \o validate_models_batch(Tail(data_list))
    ELSE validate_models_batch(Tail(data_list))

\* the event file as the tools find it
ToolFiles ==
    {[exists |-> FALSE, kind |-> "absent", list |-> <<>>],
     [exists |-> TRUE, kind |-> "not-utf8", list |-> <<>>],
     [exists |-> TRUE, kind |-> "not-json", list |-> <<>>],
     [exists |-> TRUE, kind |-> "object", list |-> <<>>]}
    \cup {[exists |-> TRUE, kind |-> "list", list |-> l] :
            l \in UNION {[1..n -> RawRecords] : n \in 0..MaxEvents}}

\* safe_read_json(EVENTS_FILE, default=[]) with no other process on the file
safe_read_json(f) ==
    IF ~f.exists THEN Return(ListVal(<<>>))
    ELSE IF f.kind = "not-utf8"
    THEN \* json.load reads the text: UnicodeDecodeError, caught by no handler
         Raise("UnicodeDecodeError", "invalid start byte")
    ELSE IF f.kind = "not-json" THEN Return(ListVal(<<>>))
    ELSE IF f.kind = "object" THEN Return(ObjectVal)
    ELSE Return(ListVal(f.list))

\* get_recent_actions_events lines 31-61; iterating an empty dict yields nothing
get_recent_actions_events(f, limit) ==
    LET read == safe_read_json(f) IN
    IF read.kind = "raise" THEN read
    ELSE Return(TailSlice(validate_models_batch(read.value.list), limit))

\* the comparison made on the event's own timestamp alone
TimestampKey(event) == event.timestamp.text

\* line 119: run.updated_at or event.timestamp
ComparisonKey(event) ==
    IF Truthy(event.workflow_run.updated_at)
    THEN event.workflow_run.updated_at.text
    ELSE event.timestamp.text

WorkflowStatus(event) ==
    [name |-> event.workflow_run.name, conclusion |-> event.workflow_run.conclusion,
     updated_at |-> ComparisonKey(event)]

\* position of name in the dict workflows, 0 when it is no key
KeyIndex(workflows, name) ==
    IF \E n \in 1..Len(workflows) : workflows[n].name = name
    THEN CHOOSE n \in 1..Len(workflows) : workflows[n].name = name
    ELSE 0

\* lines 110-129: the dict workflows, in insertion order
RECURSIVE GroupLatest(_, _)
GroupLatest(events, workflows) ==
    IF events = <<>> THEN workflows
    ELSE LET event == Head(events)
             at == KeyIndex(workflows, event.workflow_run.name)
         IN  IF at = 0
             THEN GroupLatest(Tail(events), Append(workflows, WorkflowStatus(event)))
             ELSE IF ComparisonKey(event) > workflows[at].updated_at
             THEN GroupLatest(Tail(events),
                              [workflows EXCEPT ![at] = WorkflowStatus(event)])
             ELSE GroupLatest(Tail(events), workflows)

HasRun(e) == e.workflow_run.given = "ok"

\* the filter argument: None, or a workflow name
NameFilters == {""} \cup Names

\* get_workflow_status lines 77-142
get_workflow_status(f, workflow_name) ==
    LET read == safe_read_json(f) IN
    IF read.kind = "raise" THEN read
    ELSE LET events == validate_models_batch(read.value.list)
             with_run == SelectSeq(events, HasRun)
             named == IF workflow_name # ""
                      THEN SelectSeq(with_run, LAMBDA e : e.workflow_run.name = workflow_name)
                      ELSE with_run
         IN  Return(GroupLatest(named, <<>>))

InitTools ==
    \E f \in ToolFiles : tools = [NoToolCall EXCEPT !.file = f]

\* one call of each tool, and of the helpers they are built from
CallSafeRead ==
    /\ tools.pc = "idle"
    /\ tools' = [tools EXCEPT !.pc = "done", !.op = "safe_read_json",
                              !.out = safe_read_json(tools.file)]

CallRecent(limit) ==
    /\ tools.pc = "idle"
    /\ tools' = [tools EXCEPT !.pc = "done", !.op = "get_recent_actions_events",
                              !.limit = limit,
                              !.out = get_recent_actions_events(tools.file, limit)]

CallStatus(workflow_name) ==
    /\ tools.pc = "idle"
    /\ tools' = [tools EXCEPT !.pc = "done", !.op = "get_workflow_status",
                              !.name = workflow_name,
                              !.out = get_workflow_status(tools.file, workflow_name)]

CallBatch ==
    /\ tools.pc = "idle" /\ tools.file.kind = "list"
    /\ tools' = [tools EXCEPT !.pc = "done", !.op = "validate_models_batch",
                              !.out = Return(validate_models_batch(tools.file.list))]

NextTools ==
    \/ CallSafeRead /\ UNCHANGED <<fileVars, sigVars, webVars, lockVars, dbVars, migVars>>
    \/ \E limit \in 0..MaxEvents :
          CallRecent(limit) /\ UNCHANGED <<fileVars, sigVars, webVars, lockVars, dbVars, migVars>>
    \/ \E n \in NameFilters :
          CallStatus(n) /\ UNCHANGED <<fileVars, sigVars, webVars, lockVars, dbVars, migVars>>
    \/ CallBatch /\ UNCHANGED <<fileVars, sigVars, webVars, lockVars, dbVars, migVars>>

InitToolsSpec ==
    /\ InitTools /\ InitFileIdle /\ InitSigIdle /\ InitWebIdle
    /\ InitLockIdle /\ InitDbIdle /\ InitMigIdle

SpecTools == InitToolsSpec /\ [][NextTools]_vars

\* the records of a list that validate, as models, in their original order
ValidModels(l) ==
    LET keep == SelectSeq(l, Validates) IN [n \in 1..Len(keep) |-> model_validate(keep[n])]

Reverse(s) == [n \in 1..Len(s) |-> s[Len(s) + 1 - n]]

\* the valid events of the file that carry a workflow_run and pass the filter
StatusEvents(l, workflow_name) ==
    SelectSeq(ValidModels(l),
              LAMBDA e : /\ e.workflow_run.given = "ok"
                         /\ (workflow_name # "" => e.workflow_run.name = workflow_name))

C16_BatchSkipsInvalid ==
    (tools.pc = "done" /\ tools.file.kind = "list")
    => LET valid == ValidModels(tools.file.list) IN
       /\ tools.out.kind = "return"
       /\ tools.op = "validate_models_batch" => tools.out.value = valid
       /\ tools.op = "get_recent_actions_events"
          => /\ tools.out.value = TailSlice(valid, tools.limit)
             /\ tools.limit >= Len(valid) => tools.out.value = valid
       /\ tools.op = "get_workflow_status"
          => {tools.out.value[n].name : n \in 1..Len(tools.out.value)}
             = {valid[n].workflow_run.name :
                  n \in {k \in 1..Len(valid) :
                           /\ valid[k].workflow_run.given = "ok"
                           /\ (tools.name # "" => valid[k].workflow_run.name = tools.name)}}

C16_Witness ==
    /\ tools.pc = "done" /\ tools.op = "validate_models_batch"
    /\ Len(tools.file.list) = 2
    /\ ~Validates(tools.file.list[1])
    /\ Validates(tools.file.list[2])
    /\ tools.out = Return(<<model_validate(tools.file.list[2])>>)

(***************************************************************************)
(* C19: safe_read_json never raises and leaves the file as it is: for a    *)
(* missing file it returns the default [] and creates nothing, for a file  *)
(* that is not valid JSON it returns the default, for a valid file the     *)
(* parsed content.                                                         *)
(***************************************************************************)
C19_ReadNeverRaises ==
    (tools.pc = "done" /\ tools.op = "safe_read_json")
    => /\ tools.out.kind = "return"
       /\ tools.file \in ToolFiles
       /\ ~tools.file.exists => tools.out = Return(ListVal(<<>>))
       /\ tools.file.kind \in {"not-utf8", "not-json"} => tools.out = Return(ListVal(<<>>))
       /\ tools.file.kind = "list" => tools.out = Return(ListVal(tools.file.list))
       /\ tools.file.kind = "object" => tools.out = Return(ObjectVal)

\* only the first process has made calls: every call so far ran alone, one
\* after the other
Sequential == \A p \in Procs : p # 1 => (pc[p] = "idle" /\ res[p] = NoRes)

\* the event the ingress builds for the item i (handle_webhook lines 117-128)
EventOf(i) ==
    [dict |-> TRUE, timestamp |-> Str(i), event_type |-> TRUE,
     workflow_run |-> NoRun, nulls |-> FALSE]

\* the event file as the query tools find it, its items being events
AsToolFile(f) ==
    IF ~f.exists THEN [exists |-> FALSE, kind |-> "absent", list |-> <<>>]
    ELSE LET v == json_load(f.bytes) IN
         IF v.kind = "list"
         THEN [exists |-> TRUE, kind |-> "list",
               list |-> [n \in 1..Len(v.list) |-> EventOf(v.list[n])]]
         ELSE IF v.kind = "object" THEN [exists |-> TRUE, kind |-> "object", list |-> <<>>]
         ELSE [exists |-> TRUE, kind |-> "not-json", list |-> <<>>]

(***************************************************************************)
(* C12: after successful appends made one after the other, all with the    *)
(* same max_items = m >= 0, the file holds at most m entries: the last     *)
(* min(n, m) of the n appended items, in insertion order.                  *)
(***************************************************************************)
C12_BoundedRetention ==
    (/\ Quiet /\ Sequential /\ plainWrites = 0
     /\ nextId > 1 /\ Cardinality(okItems) = nextId - 1)
    => LET v == json_load(file.bytes)
           n == nextId - 1
           kept == Min(n, max_items)
       IN  /\ v.kind = "list"
           /\ Len(v.list) <= max_items
           /\ v.list = [k \in 1..kept |-> n - kept + k]

(***************************************************************************)
(* C13: when safe_append_json(item) has returned True and nothing else     *)
(* intervenes, the next read returns a list whose last element is item,    *)
(* and a recent-events query with limit 1 returns exactly that event;      *)
(* items appended one after the other are in the file in that order.       *)
(***************************************************************************)
C13_ReadYourWrite ==
    (Quiet /\ Sequential /\ plainWrites = 0 /\ okItems # {}
     /\ Cardinality(okItems) = nextId - 1)
    => LET v == json_load(file.bytes)
           last == nextId - 1
       IN  /\ v.kind = "list" /\ v.list # <<>>
           /\ v.list[Len(v.list)] = last
           /\ \A m, n \in 1..Len(v.list) : m < n => v.list[m] < v.list[n]
           /\ get_recent_actions_events(AsToolFile(file), 1) = Return(<<EventOf(last)>>)
           /\ res[1].op = "read"
              => /\ res[1].data.kind = "list" /\ res[1].data.list # <<>>
                 /\ res[1].data.list[Len(res[1].data.list)] = last

C13_Witness ==
    /\ Quiet /\ Sequential
    /\ okItems = {1} /\ nextId = 2
    /\ res[1].op = "read" /\ res[1].data = ListVal(<<1>>)

(***************************************************************************)
(* C20: safe_append_json holds the file lock without interruption from its *)
(* read of the existing list until its rewrite is flushed and synced.      *)
(***************************************************************************)
C20_AppendHoldsLock ==
    \A p \in Procs :
        (/\ call[p].op = "append"
         /\ pc[p] \in {"wr_open", "wr_lock", "wr_dump"}
         /\ res[p].fallback = "none")
        => lockHolder = p

(***************************************************************************)
(* cleanup_old_events run alone on the table github_events                 *)
(* (pr_agent/db/operations.py lines 144-188).  A timestamp is a positive   *)
(* number.                                                                 *)
(***************************************************************************)
MaxTs == 3
MaxRows == 3
MaxKeep == 3

\* a row inserted earlier with the timestamp ts, the n-th of the table
StoredRow(n, ts) ==
    [id |-> n, timestamp |-> ts, workflow_run |-> "absent", check_run |-> "absent", req |-> 0]

Tables ==
    UNION {{[n \in 1..len |-> StoredRow(n, f[n])] : f \in [1..len -> 1..MaxTs]} :
             len \in 0..MaxRows}

\* lines 157-165: SELECT timestamp FROM github_events ORDER BY timestamp DESC
\* OFFSET keep_count LIMIT 1; 0 stands for None (no such row)
OffsetTimestamp(t, keep_count) ==
    IF Len(t) <= keep_count THEN 0
    ELSE CHOOSE v \in {t[n].timestamp : n \in 1..Len(t)} :
            /\ Cardinality({n \in 1..Len(t) : t[n].timestamp > v}) <= keep_count
            /\ Cardinality({n \in 1..Len(t) : t[n].timestamp >= v}) > keep_count

\* lines 169-175: DELETE FROM github_events WHERE timestamp < $1
DeleteOlder(t, ts) == SelectSeq(t, LAMBDA row : ~(row.timestamp < ts))

InitDb ==
    /\ table \in Tables
    /\ cleanup = NoCleanup
    /\ cleaners = NoCleaners
    /\ serial = Len(table) + 1
    /\ both = NoQuery
    /\ webSecret = <<>>
    /\ database_url = "set"
    /\ req = [r \in Reqs |-> NewReq]
    /\ loop = 0
    /\ pool = 0
    /\ poolsCreated = 0
    /\ clock = 1
    /\ lastQuery = [events |-> <<>>, after |-> {}]

\* cleanup_old_events(keep_count); with ok false the pool or a statement
\* raises and the handler of line 186 returns 0
Cleanup(keep_count, ok) ==
    /\ cleanup.pc = "idle"
    /\ LET result == OffsetTimestamp(table, keep_count)
           after == IF ok /\ result # 0 THEN DeleteOlder(table, result) ELSE table
       IN  /\ table' = after
           /\ cleanup' = [pc |-> "done", keep_count |-> keep_count,
                          returned |-> Len(table) - Len(after),
                          before |-> table, failed |-> ~ok]
    /\ UNCHANGED <<cleaners, serial, both>>
    /\ UNCHANGED <<webSecret, database_url, req, loop, pool, poolsCreated, clock, lastQuery>>

NextDb ==
    \E k \in 0..MaxKeep : \E ok \in BOOLEAN :
        Cleanup(k, ok) /\ UNCHANGED <<fileVars, sigVars, lockVars, toolVars, migVars>>

InitDbSpec ==
    /\ InitDb /\ InitFileIdle /\ InitSigIdle
    /\ InitLockIdle /\ InitToolsIdle /\ InitMigIdle

SpecDb == InitDbSpec /\ [][NextDb]_vars

\* the timestamps of a table, and whether they are pairwise distinct
Timestamps(t) == {t[n].timestamp : n \in 1..Len(t)}

DistinctTimestamps(t) == Cardinality(Timestamps(t)) = Len(t)

(***************************************************************************)
(* C14: cleanup_old_events(keep_count = K) run alone on M events with      *)
(* pairwise distinct timestamps leaves exactly the K events with the       *)
(* largest timestamps and returns M - K when M > K; it deletes nothing and *)
(* returns 0 when M <= K.                                                  *)
(***************************************************************************)
C14_CleanupKeepsK ==
    (cleanup.pc = "done" /\ ~cleanup.failed /\ DistinctTimestamps(cleanup.before))
    => LET M == Len(cleanup.before)
           K == cleanup.keep_count
       IN  /\ M > K
              => /\ Len(table) = K
                 /\ \A a \in Timestamps(table) :
                       \A b \in Timestamps(cleanup.before) \ Timestamps(table) : b < a
                 /\ cleanup.returned = M - K
           /\ M <= K => (table = cleanup.before /\ cleanup.returned = 0)

(***************************************************************************)
(* migrate_json_to_db (pr_agent/db/migrate.py lines 14-108), run alone.    *)
(* A source record is an event dict, a dict whose fields the INSERT        *)
(* rejects, or a value that is no dict.                                    *)
(***************************************************************************)
MaxRecords == 3

RecordKinds == {"event", "bad_fields", "not_dict"}

SourceFiles ==
    {[exists |-> FALSE, kind |-> "absent", list |-> <<>>],
     [exists |-> TRUE, kind |-> "not-utf8", list |-> <<>>],
     [exists |-> TRUE, kind |-> "not-json", list |-> <<>>]}
    \cup {[exists |-> TRUE, kind |-> "list", list |-> l] :
            l \in UNION {[1..n -> RecordKinds] : n \in 0..MaxRecords}}

Continue == [kind |-> "continue", value |-> 0, exc |-> "none", msg |-> "none"]

\* lines 33-41 with the dry-run test left out
BeforeDestinationLive(events_data, dry_run) ==
    IF events_data = <<>> THEN Return(0) ELSE Continue

\* lines 33-41: what happens before the destination is touched
BeforeDestination(events_data, dry_run) ==
    IF events_data = <<>> THEN Return(0)
    ELSE IF dry_run THEN Return(Len(events_data))
    ELSE Continue

InitMig ==
    \E f \in SourceFiles : \E d \in BOOLEAN :
        mig = [NoMigration EXCEPT !.file = f, !.dry_run = d]

\* lines 24-41: existence test, safe_read_json, empty test, dry run
MigBegin ==
    /\ mig.pc = "idle"
    /\ LET read == safe_read_json(mig.file) IN
       IF ~mig.file.exists
       THEN mig' = [mig EXCEPT !.pc = "done", !.out = Return(0)]
       ELSE IF read.kind = "raise"
       THEN mig' = [mig EXCEPT !.pc = "done", !.out = read]
       ELSE LET go == BeforeDestination(read.value.list, mig.dry_run) IN
            IF go = Continue
            THEN mig' = [mig EXCEPT !.pc = "init", !.events_data = read.value.list]
            ELSE mig' = [mig EXCEPT !.pc = "done", !.events_data = read.value.list,
                                    !.out = go]
    /\ UNCHANGED table

\* lines 44-48: init_database(); its failure is raised again
MigInit(ok) ==
    /\ mig.pc = "init"
    /\ IF ok
       THEN mig' = [mig EXCEPT !.pc = "loop", !.destOps = mig.destOps + 1]
       ELSE mig' = [mig EXCEPT !.pc = "done", !.destOps = mig.destOps + 1,
                               !.out = Raise("RuntimeError", "Database initialization failed")]
    /\ UNCHANGED table

\* lines 54-99: one turn of the loop.  event_data.get on a value that is no
\* dict raises AttributeError at line 57, and again at line 97 inside the
\* handler, from where it leaves the function
MigRecord(ok) ==
    /\ mig.pc = "loop" /\ mig.next <= Len(mig.events_data)
    /\ LET kind == mig.events_data[mig.next] IN
       IF kind = "not_dict"
       THEN /\ mig' = [mig EXCEPT !.pc = "done", !.failed_count = mig.failed_count + 1,
                                  !.out = Raise("AttributeError", "no attribute get")]
            /\ UNCHANGED table
       ELSE IF kind = "event" /\ ok
       THEN /\ table' = Append(table, StoredRow(Len(table) + 1, mig.next))
            /\ mig' = [mig EXCEPT !.next = mig.next + 1, !.destOps = mig.destOps + 1,
                                  !.migrated_count = mig.migrated_count + 1]
       ELSE \* insert_event raises RuntimeError, caught at line 92
            /\ mig' = [mig EXCEPT !.next = mig.next + 1, !.destOps = mig.destOps + 1,
                                  !.failed_count = mig.failed_count + 1]
            /\ UNCHANGED table

\* lines 101-108
MigFinish ==
    /\ mig.pc = "loop" /\ mig.next > Len(mig.events_data)
    /\ mig' = [mig EXCEPT !.pc = "done", !.out = Return(mig.migrated_count)]
    /\ UNCHANGED table

MigFrame ==
    UNCHANGED <<fileVars, sigVars, lockVars, toolVars, dbVars, webSecret, database_url,
                req, loop, pool, poolsCreated, clock, lastQuery>>

NextMig ==
    \/ MigBegin /\ MigFrame
    \/ \E ok \in BOOLEAN : MigInit(ok) /\ MigFrame
    \/ \E ok \in BOOLEAN : MigRecord(ok) /\ MigFrame
    \/ MigFinish /\ MigFrame

InitMigSpec ==
    /\ InitMig /\ InitFileIdle /\ InitSigIdle /\ InitWebIdle
    /\ InitLockIdle /\ InitToolsIdle /\ InitDbIdle

SpecMig == InitMigSpec /\ [][NextMig]_vars

(***************************************************************************)
(* C17: migrate_json_to_db makes no destination call (no init_database, no *)
(* insert_event) when dry_run is true or the source file is absent or      *)
(* holds an empty list, and then returns the number of records of the      *)
(* source, 0 when it is absent or empty.                                   *)
(***************************************************************************)
C17_DryRunTouchesNothing ==
    (mig.dry_run \/ ~mig.file.exists \/ (mig.file.kind = "list" /\ mig.file.list = <<>>))
    => /\ mig.destOps = 0
       /\ table = <<>>
       /\ mig.pc \in {"idle", "done"}
       /\ (mig.pc = "done" /\ mig.file.kind \in {"absent", "list"})
          => mig.out = Return(Len(mig.file.list))

C17_Witness ==
    /\ mig.dry_run /\ mig.pc = "done"
    /\ mig.file.kind = "list" /\ Len(mig.file.list) = 2
    /\ mig.out = Return(2) /\ mig.destOps = 0

(***************************************************************************)
(* C18: in a live migration a failure on one source record, whatever the   *)
(* record's shape, counts as one failure and does not abort the run: all   *)
(* later records are attempted, the call returns the number of successful  *)
(* inserts, and migrated + failed is the number of source records.         *)
(***************************************************************************)
C18_FailureDoesNotAbort ==
    (mig.pc = "done" /\ ~mig.dry_run /\ mig.destOps > 0
     /\ mig.out # Raise("RuntimeError", "Database initialization failed"))
    => /\ mig.out = Return(Len(table))
       /\ mig.next = Len(mig.events_data) + 1
       /\ mig.migrated_count + mig.failed_count = Len(mig.events_data)

(***************************************************************************)
(* C21: a lock timeout inside a read or an append is surfaced as a         *)
(* failure: a read whose lock attempt timed out does not return normally   *)
(* with the value of an empty store, and an append whose read timed out    *)
(* does not go on to write as if the store were empty.                     *)
(***************************************************************************)
C21_TimeoutSurfaced ==
    \A p \in Procs :
        /\ (res[p].op = "read" /\ res[p].fallback = "timeout") => ~res[p].ok
        /\ (call[p].op = "append" /\ res[p].fallback = "timeout")
           => pc[p] \notin {"wr_open", "wr_lock", "wr_dump"}

(***************************************************************************)
(* C26: at most one operation holds the file lock, and every step that     *)
(* changes the file (the truncation before a rewrite included) is taken by *)
(* the operation that holds the lock.                                      *)
(***************************************************************************)
C26_FileChangedUnderLock ==
    [][file' # file => (lockHolder # 0 /\ pc'[lockHolder] # pc[lockHolder])]_vars

(***************************************************************************)
(* C28: a safe_write_json or safe_append_json call that returns False      *)
(* leaves the content of the file as it was before the call.  Stated for   *)
(* the runs in which that call is the only write or append ever started:   *)
(* the file is then still absent or still holds the empty list.            *)
(***************************************************************************)
C28_FailedWriteLeavesFile ==
    \A p \in Procs :
        (/\ pc[p] = "idle" /\ res[p].op \in {"write", "append"} /\ ~res[p].ok
         /\ (nextId - 1) + plainWrites = 1)
        => \/ file = [exists |-> FALSE, bytes |-> <<>>]
           \/ file = [exists |-> TRUE, bytes |-> json_dump(ListVal(<<>>))]

\* the top-level fields of a raw record are valid
TopLevelValid(r) == r.dict /\ r.timestamp.present /\ r.event_type

(***************************************************************************)
(* C23: a record whose top-level fields are valid is accepted as an event  *)
(* by the validation of the query tools whatever its workflow_run is: a    *)
(* workflow_run that fails validation never makes the tools skip the       *)
(* record.                                                                 *)
(***************************************************************************)
C23_BadNestedStillAccepted ==
    (tools.pc = "done" /\ tools.op = "validate_models_batch")
    => Len(tools.out.value) = Len(SelectSeq(tools.file.list, TopLevelValid))

(***************************************************************************)
(* C24: no event is constructed from a timestamp that cannot be parsed as  *)
(* an ISO-8601 date-time: every event the validation returns carries a     *)
(* timestamp that parses, unchanged from the record.                       *)
(***************************************************************************)
C24_UnparseableTimestampRejected ==
    (tools.pc = "done" /\ tools.op = "validate_models_batch")
    => /\ \A n \in 1..Len(tools.out.value) : IsoParses(tools.out.value[n].timestamp)
       /\ \A n \in 1..Len(tools.file.list) :
             LET r == tools.file.list[n] IN
             (TopLevelValid(r) /\ r.workflow_run.given # "bad" /\ IsoParses(r.timestamp))
             => \E m \in 1..Len(tools.out.value) :
                   tools.out.value[m].timestamp = r.timestamp

\* the last min(n, Len(s)) members of s
LastN(s, n) == SubSeq(s, Len(s) - Min(n, Len(s)) + 1, Len(s))

(***************************************************************************)
(* C25: when get_recent_actions_events returns, it returns at most limit   *)
(* events, the last min(limit, n) of the n valid events of the file in     *)
(* insertion order; limit = 0 returns no events.                           *)
(***************************************************************************)
C25_RecentAtMostLimit ==
    (tools.pc = "done" /\ tools.op = "get_recent_actions_events"
     /\ tools.out.kind = "return" /\ tools.file.kind = "list")
    => /\ Len(tools.out.value) <= tools.limit
       /\ tools.out.value = LastN(ValidModels(tools.file.list), tools.limit)

\* the gates of handle_webhook in the order of the code
GateOrder == <<"received", "signature", "parse", "validate", "store", "responded">>

GateIndex(g) == CHOOSE n \in 1..Len(GateOrder) : GateOrder[n] = g

\* the request passed its gates in the fixed order, none twice, and store
\* only after all the earlier ones
InGateOrder(r) ==
    LET gates == req[r].gates IN
    /\ \A n \in 1..(Len(gates) - 1) : GateIndex(gates[n]) < GateIndex(gates[n + 1])
    /\ \A n \in 1..Len(gates) : gates[n] = "store" => n = 5

\* insert_event was called at most once; a request that did not reach the
\* store step has no row; a finished request has exactly one response
StoreOnlyAfterGates(r) ==
    /\ InGateOrder(r)
    /\ req[r].inserts <= 1
    /\ req[r].inserts = 1 <=> (\E n \in 1..Len(req[r].gates) : req[r].gates[n] = "store")
    /\ req[r].inserts = 0 => \A n \in 1..Len(table) : table[n].req # r
    /\ Done(r) <=> req[r].resp # NoResponse
    /\ Done(r) <=> (req[r].gates # <<>> /\ req[r].gates[Len(req[r].gates)] = "responded")

(***************************************************************************)
(* C22: each request passes the gates signature check, JSON parse, event   *)
(* validation, store, acknowledge in that order and gets one response;     *)
(* insert_event is called at most once and only after every earlier gate   *)
(* passed, so a request that failed or was cancelled before the store step *)
(* has no row; and with a secret configured a request with a bad signature *)
(* and an unparseable body is answered 401.                                *)
(***************************************************************************)
C22_GatesInOrder ==
    \A r \in Reqs :
        /\ StoreOnlyAfterGates(r)
        /\ (webSecret # <<>> /\ Done(r) /\ req[r].badSig
            /\ req[r].bodyKind \in {"not-utf8", "not-json"})
           => req[r].resp.status = 401

\* the order of the gates and the single insert, without the status codes
StoreOnlyAfterGatesAlways == \A r \in Reqs : StoreOnlyAfterGates(r)

(***************************************************************************)
(* C29: create_pool is invoked at most once while no pool exists: no       *)
(* second pool is ever created beside the one _pool refers to.             *)
(***************************************************************************)
C29_OnePool == poolsCreated <= 1

(***************************************************************************)
(* cleanup_old_events calls that run at the same time as each other and as *)
(* insert_event calls (pr_agent/db/operations.py lines 45-95 and 144-188). *)
(* Each SQL statement is atomic; a task may be suspended between the       *)
(* cutoff query and the delete.                                            *)
(***************************************************************************)

\* lines 157-167: the cutoff query of cleanup_old_events(keep_count); a None
\* result ends the call with 0
CutoffQuery(c, keep_count) ==
    /\ cleaners[c].pc = "idle"
    /\ LET result == OffsetTimestamp(table, keep_count) IN
       cleaners' = [cleaners EXCEPT ![c] =
                       [pc |-> IF result # 0 THEN "queried" ELSE "done",
                        keep_count |-> keep_count, result |-> result]]
    /\ UNCHANGED <<table, cleanup, serial, both>>
    /\ UNCHANGED <<webSecret, database_url, req, loop, pool, poolsCreated, clock, lastQuery>>

\* lines 169-182: the delete statement with the cutoff found earlier; with ok
\* false the statement raises and the handler of line 186 returns 0
DeleteStatement(c, ok) ==
    /\ cleaners[c].pc = "queried"
    /\ table' = IF ok THEN DeleteOlder(table, cleaners[c].result) ELSE table
    /\ cleaners' = [cleaners EXCEPT ![c].pc = "done"]
    /\ UNCHANGED <<cleanup, serial, both>>
    /\ UNCHANGED <<webSecret, database_url, req, loop, pool, poolsCreated, clock, lastQuery>>

\* insert_event lines 72-87: INSERT_EVENT_SQL with the timestamp the caller
\* took when it built the event
InsertEvent(timestamp) ==
    /\ Len(table) < MaxRows /\ serial <= MaxRows + 1
    /\ table' = Append(table, StoredRow(serial, timestamp))
    /\ serial' = serial + 1
    /\ UNCHANGED <<cleanup, cleaners, both>>
    /\ UNCHANGED <<webSecret, database_url, req, loop, pool, poolsCreated, clock, lastQuery>>

NextDbConc ==
    \/ \E c \in Cleaners : \E k \in 0..MaxKeep :
          CutoffQuery(c, k) /\ UNCHANGED <<fileVars, sigVars, lockVars, toolVars, migVars>>
    \/ \E c \in Cleaners : \E ok \in BOOLEAN :
          DeleteStatement(c, ok) /\ UNCHANGED <<fileVars, sigVars, lockVars, toolVars, migVars>>
    \/ \E ts \in 1..MaxTs :
          InsertEvent(ts) /\ UNCHANGED <<fileVars, sigVars, lockVars, toolVars, migVars>>

SpecDbConc == InitDbSpec /\ [][NextDbConc]_vars

\* row n of t is among the keep_count most recent rows of t by timestamp,
\* however rows of equal timestamp are ordered
AmongMostRecent(t, n, keep_count) ==
    Cardinality({m \in 1..Len(t) : t[m].timestamp >= t[n].timestamp}) <= keep_count

(***************************************************************************)
(* C30: the delete statement of a cleanup_old_events(keep_count) call      *)
(* never removes a row that is, in the table the delete acts on, among the *)
(* keep_count most recent rows by timestamp, whatever inserts and other    *)
(* cleanups ran between its cutoff query and its delete.                   *)
(***************************************************************************)
C30_NeverDeletesRecent ==
    [][\A c \in Cleaners :
          (cleaners[c].pc = "queried" /\ cleaners'[c].pc = "done")
          => \A n \in 1..Len(table) :
                (\A m \in 1..Len(table') : table'[m] # table[n])
                => ~AmongMostRecent(table, n, cleaners[c].keep_count)]_vars

(***************************************************************************)
(* The two backends fed with the same events: each event is appended to    *)
(* the event file (safe_append_json, run alone, no max_items) and inserted *)
(* into github_events (insert_event), one event at a time, with strictly   *)
(* increasing timestamps; then both are queried with the same limit.       *)
(***************************************************************************)

\* the event dict appended to the file, with the ISO timestamp of rank ts
EventRecord(ts, run) ==
    [dict |-> TRUE, timestamp |-> Str(ts), event_type |-> TRUE,
     workflow_run |-> run, nulls |-> FALSE]

\* safe_append_json lines 194-210 with no other process on the file and
\* max_items None: the list read (the default [] for a missing or unreadable
\* file, a new list for a value that is no list) with new_item at its end
AppendAlone(f, new_item) ==
    LET read == safe_read_json(f)
        existing_data == IF read.kind = "return" /\ read.value.kind = "list"
                         THEN read.value.list ELSE <<>>
    IN  [exists |-> TRUE, kind |-> "list", list |-> Append(existing_data, new_item)]

\* ORDER BY timestamp DESC; rows of equal timestamp come in an order the
\* database chooses
RECURSIVE OrderByTimestampDesc(_)
OrderByTimestampDesc(t) ==
    IF t = <<>> THEN <<>>
    ELSE LET n == CHOOSE n \in 1..Len(t) :
                     \A m \in 1..Len(t) : t[m].timestamp <= t[n].timestamp
             rest == [m \in 1..(Len(t) - 1) |-> IF m < n THEN t[m] ELSE t[m + 1]]
         IN  <<t[n]>> \o OrderByTimestampDesc(rest)

\* event_to_dict lines 107-116: the timestamp column as an ISO string
event_to_dict(row) ==
    [timestamp |-> Str(row.timestamp), workflow_run |-> row.workflow_run]

\* get_recent_events lines 107-116 with GET_RECENT_EVENTS_SQL: ORDER BY
\* timestamp DESC LIMIT $1; with ok false the pool or the query raises and
\* the handler of line 114 returns []
get_recent_events(t, limit, ok) ==
    IF ~ok THEN <<>>
    ELSE LET rows == OrderByTimestampDesc(t)
             limited == SubSeq(rows, 1, Min(limit, Len(rows)))
         IN  [n \in 1..Len(limited) |-> event_to_dict(limited[n])]

\* model_dump(exclude_none=True) of a file event, as the consumer reads it
model_dump(event) ==
    [timestamp |-> event.timestamp, workflow_run |-> event.workflow_run]

InitBoth ==
    /\ table = <<>>
    /\ tools = NoToolCall
    /\ InitDbIdle
    /\ webSecret = <<>>
    /\ database_url = "set"
    /\ req = [r \in Reqs |-> NewReq]
    /\ loop = 0
    /\ pool = 0
    /\ poolsCreated = 0
    /\ clock = 1
    /\ lastQuery = [events |-> <<>>, after |-> {}]

\* one event reaches both backends; its timestamp is later than all before
AppendBoth(run) ==
    /\ Len(table) < MaxEvents
    /\ LET ts == Len(table) + 1 IN
       /\ table' = Append(table, [StoredRow(serial, ts) EXCEPT !.workflow_run = run])
       /\ tools' = [tools EXCEPT !.file = AppendAlone(tools.file, EventRecord(ts, run))]
    /\ serial' = serial + 1
    /\ both' = NoQuery
    /\ UNCHANGED <<cleanup, cleaners>>
    /\ UNCHANGED <<webSecret, database_url, req, loop, pool, poolsCreated, clock, lastQuery>>

\* the consumer asks both backends for the recent events
QueryBoth(limit, ok) ==
    /\ both.pc = "idle"
    /\ LET answer == get_recent_actions_events(tools.file, limit).value IN
       both' = [pc |-> "done", limit |-> limit, failed |-> ~ok,
                rows |-> get_recent_events(table, limit, ok),
                events |-> [n \in 1..Len(answer) |-> model_dump(answer[n])]]
    /\ UNCHANGED <<table, tools, cleanup, cleaners, serial>>
    /\ UNCHANGED <<webSecret, database_url, req, loop, pool, poolsCreated, clock, lastQuery>>

NextBoth ==
    \/ \E run \in Runs \cup {NoRun} :
          AppendBoth(run) /\ UNCHANGED <<fileVars, sigVars, lockVars, migVars>>
    \/ \E limit \in 0..MaxEvents : \E ok \in BOOLEAN :
          QueryBoth(limit, ok) /\ UNCHANGED <<fileVars, sigVars, lockVars, migVars>>

InitBothSpec ==
    /\ InitBoth /\ InitFileIdle /\ InitSigIdle /\ InitLockIdle /\ InitMigIdle

SpecBoth == InitBothSpec /\ [][NextBoth]_vars

(***************************************************************************)
(* C27: after the same events were appended one at a time to both          *)
(* backends with strictly increasing timestamps and no eviction, the       *)
(* relational get_recent_events(limit) and the file-backed recent-events   *)
(* query return the same events in the same order, for every limit >= 1.   *)
(***************************************************************************)
C27_BackendsEquivalent ==
    (both.pc = "done" /\ ~both.failed /\ both.limit >= 1) => both.rows = both.events
====
